---- MODULE Spec2Model ----
(***************************************************************************)
(* Model of resumeeee.py: text extraction from an uploaded PDF/DOCX file,  *)
(* the heuristic checks of analyze_resume, and the upload-handling block   *)
(* of the Streamlit script.                                                *)
(*                                                                         *)
(* A Python str is a sequence of one-character strings.  A float holding a *)
(* readability score is an integer number of hundredths (49.9 is 4990).    *)
(***************************************************************************)
EXTENDS Integers, Sequences, FiniteSets, TLC

----------------------------------------------------------------------------
(* Characters and the character classes of Python's re module.             *)

LowerLetters ==
    <<"a","b","c","d","e","f","g","h","i","j","k","l","m",
      "n","o","p","q","r","s","t","u","v","w","x","y","z">>

UpperLetters ==
    <<"A","B","C","D","E","F","G","H","I","J","K","L","M",
      "N","O","P","Q","R","S","T","U","V","W","X","Y","Z">>

LowerSet == {LowerLetters[i] : i \in 1..26}

UpperSet == {UpperLetters[i] : i \in 1..26}

DigitSet == {"0","1","2","3","4","5","6","7","8","9"}

\* str.lower() on one character
LowerOf == [c \in UpperSet |-> LowerLetters[CHOOSE i \in 1..26 : UpperLetters[i] = c]]

\* \w
IsWordChar(c) == c \in LowerSet \/ c \in UpperSet \/ c \in DigitSet \/ c = "_"

\* \d
IsDigit(c) == c \in DigitSet

\* \s, and the separators of str.split() and str.strip()
IsSpace(c) == c \in {" ", "\n", "\t"}

\* [aeiouyAEIOUY]
IsVowel(c) == c \in {"a","e","i","o","u","y","A","E","I","O","U","Y"}

\* [.!?]
IsSentenceEnd(c) == c \in {".", "!", "?"}

----------------------------------------------------------------------------
(* String operations used by the script.                                   *)

\* text.lower()
lower(text) == [i \in 1..Len(text) |-> IF text[i] \in UpperSet THEN LowerOf[text[i]] ELSE text[i]]

\* needle in text
Contains(needle, text) ==
    \E i \in 1..(Len(text) - Len(needle) + 1) :
        \A j \in 1..Len(needle) : text[i + j - 1] = needle[j]

\* name.endswith(suffix)
endswith(name, suffix) ==
    /\ Len(suffix) <= Len(name)
    /\ \A j \in 1..Len(suffix) : name[Len(name) - Len(suffix) + j] = suffix[j]

\* a variant of strip that leaves the text as it is
strip_nothing(text) == text

\* text.strip(): the text without its leading and trailing whitespace
strip(text) ==
    IF \A i \in 1..Len(text) : IsSpace(text[i]) THEN <<>>
    ELSE LET n     == Len(text)
             first == CHOOSE i \in 1..n :
                         ~IsSpace(text[i]) /\ \A k \in 1..(i - 1) : IsSpace(text[k])
             back  == CHOOSE j \in 1..n :
                         ~IsSpace(text[n + 1 - j]) /\ \A k \in 1..(j - 1) : IsSpace(text[n + 1 - k])
             last  == n + 1 - back
         IN  [i \in 1..(last - first + 1) |-> text[first + i - 1]]

\* len(re.findall(r'\w+', text)): the number of maximal runs of word characters
findall_words(text) ==
    Cardinality({i \in 1..Len(text) :
                    IsWordChar(text[i]) /\ (i = 1 \/ ~IsWordChar(text[i - 1]))})

\* len(re.findall(r'[.!?]', text))
findall_sentence_ends(text) == Cardinality({i \in 1..Len(text) : IsSentenceEnd(text[i])})

\* sum(len(re.findall(r'[aeiouyAEIOUY]', w)) for w in text.split()): every vowel
\* lies in exactly one token of split(), whitespace being no vowel
sum_vowels(text) ==
    Cardinality({i \in 1..Len(text) : ~IsSpace(text[i]) /\ IsVowel(text[i])})

\* re.search(r'\S+@\S+\.\S+', text) is not None: an '@' after a non-space, then a
\* run of non-spaces of length >= 1, a '.', and a non-space
search_email(text) ==
    \E a \in 2..Len(text) :
        /\ text[a] = "@"
        /\ ~IsSpace(text[a - 1])
        /\ \E d \in (a + 2)..(Len(text) - 1) :
              /\ text[d] = "."
              /\ ~IsSpace(text[d + 1])
              /\ \A m \in (a + 1)..(d - 1) : ~IsSpace(text[m])

\* re.search(r'\+?\d[\d\s-]{8,}\d', text) is not None: two digits with at least
\* eight characters between them, all digits, whitespace or hyphens (the
\* optional '+' does not change whether a match exists)
search_phone(text) ==
    \E i \in 1..Len(text) :
        /\ IsDigit(text[i])
        /\ \E j \in (i + 9)..Len(text) :
              /\ IsDigit(text[j])
              /\ \A m \in (i + 1)..(j - 1) :
                    IsDigit(text[m]) \/ IsSpace(text[m]) \/ text[m] = "-"

----------------------------------------------------------------------------
(* Arithmetic helpers.                                                     *)

Max(a, b) == IF a >= b THEN a ELSE b

\* int(n / d) for d > 0: truncation towards zero
TruncDiv(n, d) == IF n >= 0 THEN n \div d ELSE -((-n) \div d)

\* round(n / d) for d > 0: the nearest integer, ties to the even one
RoundDiv(n, d) ==
    LET q == n \div d
        r == n % d
    IN  IF 2 * r < d THEN q
        ELSE IF 2 * r > d THEN q + 1
        ELSE IF q % 2 = 0 THEN q ELSE q + 1

----------------------------------------------------------------------------
(* Readability: the fallback flesch_reading_ease of the script, used when  *)
(* textstat cannot be imported.                                            *)

\* `n or 1`
OrOne(n) == IF n = 0 THEN 1 ELSE n

\* The values round(score, 1) can take, in hundredths, for
\*   score = 206.835 - 1.015 * (words / sentences) - 84.6 * (syllables / words).
\* The score is computed exactly: in thousandths it is I - F / D with
\*   I = 206835 - (1015 * words) div sentences - (84600 * syllables) div words,
\*   F / D the sum of the two divisions' remainders over sentences and words.
\* The quotients are split so that no product leaves 32 bits.  Where the exact
\* score lies halfway between two tenths, the float the script holds may fall on
\* either side of the tie, and both tenths are possible results.
flesch_values(sentences, words, syllables) ==
    LET A  == 1015 * words
        B  == 84600 * syllables
        I  == 206835 - (A \div sentences) - (B \div words)
        F  == (A % sentences) * words + (B % words) * sentences
        D  == sentences * words
        qi == I \div 100
        n  == (I % 100) * D - F
        d  == 100 * D
        lo == qi + (n \div d)
        r  == n % d
    IN  IF 2 * r < d THEN {10 * lo}
        ELSE IF 2 * r > d THEN {10 * (lo + 1)}
        ELSE {10 * lo, 10 * (lo + 1)}

\* flesch_reading_ease(text) of the except-branch
flesch_reading_ease_fallback(text) ==
    flesch_values(OrOne(findall_sentence_ends(text)),
                  OrOne(findall_words(text)),
                  OrOne(sum_vowels(text)))

----------------------------------------------------------------------------
(* analyze_resume.                                                         *)

required_sections ==
    << <<"e","d","u","c","a","t","i","o","n">>,
       <<"e","x","p","e","r","i","e","n","c","e">>,
       <<"p","r","o","j","e","c","t","s">>,
       <<"s","k","i","l","l","s">> >>

\* f"Missing section: **{section.capitalize()}**", per index of required_sections
MissingSection ==
    << "Missing section: Education", "Missing section: Experience",
       "Missing section: Projects", "Missing section: Skills" >>

TooShort == "Resume is too short"

TooLong == "Resume might be too long"

AddActionVerbs == "Add action verbs"

AddTechnicalSkills == "Consider mentioning technical skills"

EmailNotFound == "Email not found"

PhoneNotFound == "Contact number not found"

LanguageComplex == "The language seems complex"

action_verbs ==
    { <<"d","e","v","e","l","o","p","e","d">>, <<"l","e","d">>,
      <<"c","r","e","a","t","e","d">>, <<"d","e","s","i","g","n","e","d">>,
      <<"m","a","n","a","g","e","d">>,
      <<"i","m","p","l","e","m","e","n","t","e","d">>,
      <<"a","n","a","l","y","z","e","d">>, <<"o","r","g","a","n","i","z","e","d">> }

tech_keywords ==
    { <<"p","y","t","h","o","n">>, <<"j","a","v","a">>, <<"s","q","l">>,
      <<"f","l","a","s","k">>, <<"s","p","r","i","n","g">>, <<"r","e","a","c","t">>,
      <<"d","o","c","k","e","r">>, <<"a","w","s">>, <<"h","t","m","l">>,
      <<"c","s","s">>, <<"j","a","v","a","s","c","r","i","p","t">> }

min_words == 300

max_words == 900

min_readability == 50

total_checks == 7

\* the loop over required_sections: one suggestion per absent section, in the
\* order of the list
section_suggestions(lower_text) ==
    LET missing == SelectSeq(<<1, 2, 3, 4>>,
                             LAMBDA k : ~Contains(required_sections[k], lower_text))
    IN  [i \in 1..Len(missing) |-> MissingSection[missing[i]]]

\* a variant of length_suggestions whose lower limit is exclusive
length_suggestions_inclusive(n_words) ==
    IF n_words <= min_words THEN <<TooShort>>
    ELSE IF n_words > max_words THEN <<TooLong>>
    ELSE <<>>

\* if word_count < 300 ... elif word_count > 900 ...
length_suggestions(n_words) ==
    IF n_words < min_words THEN <<TooShort>>
    ELSE IF n_words > max_words THEN <<TooLong>>
    ELSE <<>>

\* a variant of verb_suggestions that asks for all() of the verbs
verb_suggestions_all(lower_text) ==
    IF ~(\A v \in action_verbs : Contains(v, lower_text)) THEN <<AddActionVerbs>> ELSE <<>>

\* if not any(v in lower_text for v in action_verbs)
verb_suggestions(lower_text) ==
    IF ~(\E v \in action_verbs : Contains(v, lower_text)) THEN <<AddActionVerbs>> ELSE <<>>

\* if not any(k in lower_text for k in tech_keywords)
keyword_suggestions(lower_text) ==
    IF ~(\E k \in tech_keywords : Contains(k, lower_text)) THEN <<AddTechnicalSkills>> ELSE <<>>

email_suggestions(text) == IF ~search_email(text) THEN <<EmailNotFound>> ELSE <<>>

phone_suggestions(text) == IF ~search_phone(text) THEN <<PhoneNotFound>> ELSE <<>>

\* if readability_score < 50, the score in hundredths
readability_suggestions(readability_score) ==
    IF readability_score < min_readability * 100 THEN <<LanguageComplex>> ELSE <<>>

\* variants of compute_score: round() in place of int(), no max(0, ...),
\* abs() in place of max(0, ...), and passed counting the suggestions
compute_score_rounded(suggs) ==
    LET passed == total_checks - Len(suggs)
    IN  Max(0, RoundDiv(100 * passed, total_checks))

compute_score_unfloored(suggs) ==
    LET passed == total_checks - Len(suggs)
    IN  TruncDiv(100 * passed, total_checks)

compute_score_abs(suggs) ==
    LET passed == total_checks - Len(suggs)
        pct    == TruncDiv(100 * passed, total_checks)
    IN  IF pct < 0 THEN -pct ELSE pct

compute_score_counts_failures(suggs) ==
    LET passed == Len(suggs)
    IN  Max(0, TruncDiv(100 * passed, total_checks))

\* passed = total_checks - len(suggestions)
\* score = max(0, int((passed / total_checks) * 100))
\* (passed / 7) * 100 is a whole number only for passed a multiple of 7, where
\* the float is exact, so int() of the float is the truncation of 100 * passed / 7
compute_score(suggs) ==
    LET passed == total_checks - Len(suggs)
    IN  Max(0, TruncDiv(100 * passed, total_checks))

\* a variant of analyze_resume that looks for the phone number before the email
analyze_resume_phone_first(text, readability_score) ==
    LET lower_text  == lower(text)
        n_words     == findall_words(text)
        suggs       == section_suggestions(lower_text)
                       \o length_suggestions(n_words)
                       \o verb_suggestions(lower_text)
                       \o keyword_suggestions(lower_text)
                       \o phone_suggestions(text)
                       \o email_suggestions(text)
                       \o readability_suggestions(readability_score)
    IN  [suggestions |-> suggs,
         word_count |-> n_words,
         readability |-> readability_score,
         score |-> compute_score(suggs)]

\* analyze_resume(text), readability_score being what flesch_reading_ease(text)
\* returned
analyze_resume(text, readability_score) ==
    LET lower_text  == lower(text)
        n_words     == findall_words(text)
        suggs       == section_suggestions(lower_text)
                       \o length_suggestions(n_words)
                       \o verb_suggestions(lower_text)
                       \o keyword_suggestions(lower_text)
                       \o email_suggestions(text)
                       \o phone_suggestions(text)
                       \o readability_suggestions(readability_score)
    IN  [suggestions |-> suggs,
         word_count |-> n_words,
         readability |-> readability_score,
         score |-> compute_score(suggs)]

----------------------------------------------------------------------------
(* Text extraction.  An uploaded file is a record                          *)
(*   [name, fmt, pages, body]:                                             *)
(* fmt is what the bytes are ("pdf", "docx", or "corrupt" for bytes no     *)
(* library can open), pages what pdfplumber finds in a PDF, body what      *)
(* docx2txt.process returns for a DOCX.  A page is [kind, text]: kind      *)
(* "text" when page.extract_text() returns text, "none" when it returns    *)
(* None, "raise" when it raises.                                           *)
(* An extraction returns [raised, text]; raised means an exception left    *)
(* the function.                                                           *)

Returned(text) == [raised |-> FALSE, text |-> text]

Raised == [raised |-> TRUE, text |-> <<>>]

\* page.extract_text() or ""
page_text(page) == IF page.kind = "none" THEN <<>> ELSE page.text

\* the loop `for page in pdf.pages: text += page.extract_text() or ""`, from
\* page k on, text being the value accumulated so far
RECURSIVE pdf_pages_from(_, _, _)
pdf_pages_from(pages, k, text) ==
    IF k > Len(pages) THEN Returned(text)
    ELSE IF pages[k].kind = "raise" THEN Raised
    ELSE pdf_pages_from(pages, k + 1, text \o page_text(pages[k]))

\* pdfplumber.open raises on bytes that are no PDF
extract_text_from_pdf(file) ==
    IF file.fmt # "pdf" THEN Raised
    ELSE pdf_pages_from(file.pages, 1, <<>>)

\* docx2txt.process raises on bytes that are no DOCX
extract_text_from_docx(file) ==
    IF file.fmt # "docx" THEN Raised
    ELSE Returned(file.body)

extract_text(file) ==
    IF endswith(file.name, <<".","p","d","f">>)
        THEN extract_text_from_pdf(file)
    ELSE IF endswith(file.name, <<".","d","o","c","x">>)
        THEN extract_text_from_docx(file)
    ELSE Returned(<<>>)

\* st.file_uploader(..., type=["pdf", "docx"]): the widget takes a file whose
\* extension is one of the types, compared without regard to letter case
uploader_accepts(name) ==
    \/ endswith(lower(name), <<".","p","d","f">>)
    \/ endswith(lower(name), <<".","d","o","c","x">>)

----------------------------------------------------------------------------
(* The files a user may hold.                                              *)

\* the largest number of pages of a PDF
MaxPages == 3

\* how far below and above min_words and max_words the long texts reach
Slack == 1

\* s repeated k times
Repeat(s, k) == [i \in 1..(k * Len(s)) |-> s[((i - 1) % Len(s)) + 1]]

\* pieces of a resume: the four sections in mixed case, an action verb, a
\* technical keyword, an email address and a phone number
Fragment ==
    << <<"E","d","u","c","a","t","i","o","n">>,
       <<"E","X","P","E","R","I","E","N","C","E">>,
       <<"p","r","o","j","e","c","t","s">>,
       <<"S","k","i","l","l","s">>,
       <<"L","e","d">>,
       <<"S","Q","L">>,
       <<"a","@","b",".","c","o">>,
       <<"+","1"," ","5","5","5","-","1","2","3","-","4","5","6","7">> >>

\* the number of words of each piece, counted by hand
FragmentWords == <<1, 1, 1, 1, 1, 1, 3, 4>>

\* the pieces chosen by S, in order, each followed by a space
RECURSIVE ComposeFrom(_, _)
ComposeFrom(S, k) ==
    IF k > Len(Fragment) THEN <<>>
    ELSE (IF k \in S THEN Fragment[k] \o <<" ">> ELSE <<>>) \o ComposeFrom(S, k + 1)

Compose(S) == ComposeFrom(S, 1)

RECURSIVE WordsFrom(_, _)
WordsFrom(S, k) ==
    IF k > Len(Fragment) THEN 0
    ELSE (IF k \in S THEN FragmentWords[k] ELSE 0) + WordsFrom(S, k + 1)

\* short resumes: every choice of pieces
ShortTexts == {Compose(S) : S \in SUBSET (1..Len(Fragment))}

\* texts that nearly hold a piece: no '@', too few digits, a verb and a
\* keyword inside longer words, one long word, whitespace only
NearTexts ==
    { <<"a","(","a","t",")","b",".","c","o">>,
      <<"1","2","3","4","5">>,
      <<"S","c","h","e","d","u","l","e","d">>,
      <<"J","a","v","a","S","c","r","i","p","t",".">>,
      <<"a","@","b",".">>,
      <<"1","2","3","4","5","6","7","8","9","0">>,
      <<"1","2","3","4","5","6","7","8","9">>,
      <<"O","n","o","m","a","t","o","p","o","e","i","a">>,
      <<" ","\n","\t">> }

\* filler words: with a sentence end (easy to read) and without (hard to read)
ReadableFiller == <<" ","x",".">>

UnreadableFiller == <<" ","x">>

WordTargets ==
    ((min_words - Slack)..(min_words + Slack)) \cup ((max_words - Slack)..(max_words + Slack))

\* a head padded with filler words up to W words
Padded(S, filler, W) == Compose(S) \o Repeat(filler, W - WordsFrom(S, 1))

\* long resumes: every piece, padded to each word count around the two limits of
\* the length rule; the sections alone and the other pieces alone, padded to the
\* lower limit and beyond the upper one
LongTexts ==
    { Padded(1..8, f, W) : f \in {ReadableFiller, UnreadableFiller}, W \in WordTargets }
    \cup { Padded(S, ReadableFiller, W) :
             S \in {1..4, 5..8}, W \in {min_words, max_words + Slack} }

Bodies == ShortTexts \cup NearTexts \cup LongTexts

TextPage(text) == [kind |-> "text", text |-> text]

PageOutcomes ==
    { [kind |-> "none", text |-> <<>>],
      [kind |-> "raise", text |-> <<>>],
      TextPage(<<" ">>),
      TextPage(<<"E","d","u","c","a","t","i","o","n"," ","E","x","p","e","r","i","e","n","c","e"," ","P","r","o","j">>),
      TextPage(<<"e","c","t","s"," ","S","k","i","l","l","s"," ","L","e","d"," ","S","Q","L"," ">>),
      TextPage(<<"a","@","b",".","c","o"," ","5","5","5"," ","1","2","3"," ","4","5","6","7">>) }

PageSeqs == UNION {[1..k -> PageOutcomes] : k \in 0..MaxPages}

NamePdf == <<"c","v",".","p","d","f">>

NameDocx == <<"c","v",".","d","o","c","x">>

NameUpperPdf == <<"C","V",".","P","D","F">>

NameTxt == <<"c","v",".","t","x","t">>

File(name, fmt, pages, body) == [name |-> name, fmt |-> fmt, pages |-> pages, body |-> body]

\* file is None
NoFile == File(<<>>, "none", <<>>, <<>>)

SamplePages == <<TextPage(<<"a","@","b",".","c","o"," ","5","5","5"," ","1","2","3"," ","4","5","6","7">>)>>

Files ==
    {File(NamePdf, "pdf", ps, <<>>) : ps \in PageSeqs}
    \cup {File(NameDocx, "docx", <<>>, b) : b \in Bodies}
    \cup {File(n, "corrupt", <<>>, <<>>) : n \in {NamePdf, NameDocx, NameUpperPdf, NameTxt}}
    \cup {File(n, "pdf", SamplePages, <<>>) : n \in {NameDocx, NameUpperPdf, NameTxt}}
    \cup {File(n, "docx", <<>>, Compose(1..8)) : n \in {NamePdf, NameUpperPdf, NameTxt}}

\* results textstat.flesch_reading_ease may return, in hundredths: the library
\* is not part of the script, so any of them may come back for any text
TextstatScores == {4999, 5000}

----------------------------------------------------------------------------
(* The script.  Streamlit runs it from top to bottom after every change of *)
(* the upload widget; nothing but the widget's file survives a run.        *)

VARIABLES
    textstat,       \* whether `from textstat import flesch_reading_ease` succeeded
    uploaded_file,  \* the file held by the upload widget, or NoFile
    pc,             \* "rerun": the widget changed and the script is about to run;
                    \* else how the last run ended: "waiting" (no file),
                    \* "no_text", "analyzed", "exception" (uncaught)
    resume_text,
    suggestions,
    word_count,
    readability,
    score,
    ui              \* what the upload block rendered in the last run

vars == <<textstat, uploaded_file, pc, resume_text, suggestions, word_count,
          readability, score, ui>>

CouldNotExtract == "st.error: Could not extract text. Try another file."

SuccessBox == "success-box: Excellent!"

MetricWordCount == "st.metric: Word Count"

MetricReadability == "st.metric: Readability"

MetricScore == "st.metric: Resume Score"

ProgressBar == "st.progress"

ExtractedTextExpander == "st.expander: View Extracted Text"

SuggestionsHeader == "st.subheader: Suggestions for Improvement"

TipInfo == "st.info: Tip"

\* flesch_reading_ease(text): the values the bound function may return
flesch_reading_ease(text) ==
    IF textstat THEN TextstatScores ELSE flesch_reading_ease_fallback(text)

\* the elements rendered after analyze_resume returned
render_results(result) ==
    <<MetricWordCount, MetricReadability, MetricScore, ProgressBar,
      ExtractedTextExpander, SuggestionsHeader>>
    \o (IF result.suggestions # <<>> THEN result.suggestions ELSE <<SuccessBox>>)
    \o <<TipInfo>>

Cleared ==
    /\ resume_text' = <<>>
    /\ suggestions' = <<>>
    /\ word_count' = 0
    /\ readability' = 0
    /\ score' = 0
    /\ ui' = <<>>

Init ==
    /\ textstat \in BOOLEAN
    /\ uploaded_file = NoFile
    /\ pc = "waiting"
    /\ resume_text = <<>>
    /\ suggestions = <<>>
    /\ word_count = 0
    /\ readability = 0
    /\ score = 0
    /\ ui = <<>>

\* the user gives the widget a file; replacing a file is removing it and
\* choosing another
Upload ==
    /\ pc # "rerun"
    /\ uploaded_file = NoFile
    /\ \E f \in Files :
          /\ uploader_accepts(f.name)
          /\ uploaded_file' = f
    /\ pc' = "rerun"
    /\ Cleared
    /\ UNCHANGED textstat

\* the user removes the file from the widget
Remove ==
    /\ pc # "rerun"
    /\ uploaded_file # NoFile
    /\ uploaded_file' = NoFile
    /\ pc' = "rerun"
    /\ Cleared
    /\ UNCHANGED textstat

\* one run of the script: `if uploaded_file:` and the block under it
RunScript ==
    /\ pc = "rerun"
    /\ UNCHANGED <<textstat, uploaded_file>>
    /\ IF uploaded_file = NoFile
       THEN /\ pc' = "waiting"
            /\ UNCHANGED <<resume_text, suggestions, word_count, readability, score, ui>>
       ELSE LET extracted == extract_text(uploaded_file)
            IN  IF extracted.raised
                THEN \* nothing catches the exception: the run ends at line 172
                     /\ pc' = "exception"
                     /\ UNCHANGED <<resume_text, suggestions, word_count, readability, score, ui>>
                ELSE IF strip(extracted.text) = <<>>
                THEN /\ pc' = "no_text"
                     /\ resume_text' = extracted.text
                     /\ ui' = <<CouldNotExtract>>
                     /\ UNCHANGED <<suggestions, word_count, readability, score>>
                ELSE \E r \in flesch_reading_ease(extracted.text) :
                        LET result == analyze_resume(extracted.text, r)
                        IN  /\ pc' = "analyzed"
                            /\ resume_text' = extracted.text
                            /\ suggestions' = result.suggestions
                            /\ word_count' = result.word_count
                            /\ readability' = result.readability
                            /\ score' = result.score
                            /\ ui' = render_results(result)

Next ==
    \/ Upload
    \/ Remove
    \/ RunScript

Spec == Init /\ [][Next]_vars

----------------------------------------------------------------------------
(* Properties.                                                             *)

Analyzed == pc = "analyzed"

Range(seq) == {seq[i] : i \in 1..Len(seq)}

\* the features of a text the seven rules look at, stated on the text itself
HasSection(k, text) == Contains(required_sections[k], lower(text))

HasActionVerb(text) == \E v \in action_verbs : Contains(v, lower(text))

HasTechKeyword(text) == \E k \in tech_keywords : Contains(k, lower(text))

\* C1 as stated: the score is the percentage of passed checks rounded to the
\* nearest integer, floored at 0, and lies in 0..100.
C1_ScoreIsRounded ==
    Analyzed =>
        /\ score = Max(0, RoundDiv(100 * (total_checks - Len(suggestions)), total_checks))
        /\ score \in 0..100

\* C1 amended: with n suggestions (0..10) and passed = 7 - n, the score is the
\* percentage 100 * passed / 7 truncated to an integer (the largest integer not
\* above it) when passed >= 0 and 0 when passed < 0, and lies in 0..100.
C1_ScoreIsTruncated ==
    Analyzed =>
        LET passed == total_checks - Len(suggestions)
        IN  /\ Len(suggestions) \in 0..10
            /\ score \in 0..100
            /\ passed < 0 => score = 0
            /\ passed >= 0 => /\ total_checks * score <= 100 * passed
                              /\ 100 * passed < total_checks * (score + 1)

\* one suggestion: 600 / 7 = 85.71..., truncated to 85 and not rounded to 86
C1_Witness == Analyzed /\ Len(suggestions) = 1 /\ score = 85

\* the conditions of C2 on the analyzed text
MeetsEveryCheck ==
    /\ word_count >= min_words
    /\ word_count <= max_words
    /\ readability >= min_readability * 100
    /\ \A k \in 1..4 : HasSection(k, resume_text)
    /\ HasActionVerb(resume_text)
    /\ HasTechKeyword(resume_text)
    /\ search_email(resume_text)
    /\ search_phone(resume_text)

\* C2: a text with all four sections (any case), 300..900 words, an action verb,
\* a technical keyword, an email match, a phone match and readability >= 50
\* gets no suggestion and score 100.
C2_PerfectResume ==
    (Analyzed /\ MeetsEveryCheck) => (suggestions = <<>> /\ score = 100)

C2_Witness == Analyzed /\ MeetsEveryCheck /\ ~textstat

\* the conditions of C3 on the analyzed text
FailsEveryCheck ==
    /\ word_count < min_words
    /\ readability < min_readability * 100
    /\ \A k \in 1..4 : ~HasSection(k, resume_text)
    /\ ~HasActionVerb(resume_text)
    /\ ~HasTechKeyword(resume_text)
    /\ ~search_email(resume_text)
    /\ ~search_phone(resume_text)

\* C3: a text with no section, under 300 words, no action verb, no technical
\* keyword, no email, no phone and readability < 50 gets exactly 10 suggestions
\* and score 0, which is not negative although passed = 7 - 10 is.
C3_WorstResume ==
    (Analyzed /\ FailsEveryCheck) => (Len(suggestions) = 10 /\ score = 0)

C3_Witness == Analyzed /\ FailsEveryCheck /\ ~textstat

\* the checks an analysis failed: each missing section on its own, and length,
\* verbs, keywords, email, phone and readability
FailedChecks(suggs) ==
    {IF m \in {TooShort, TooLong} THEN "length" ELSE m : m \in Range(suggs)}

\* the texts the script can come to analyze
AnalyzableTexts ==
    {t \in Bodies \cup {extract_text_from_pdf(File(NamePdf, "pdf", ps, <<>>)).text : ps \in PageSeqs} :
        strip(t) # <<>>}

\* the failed checks and the score of every analysis of every such text
AllOutcomes ==
    UNION { { LET a == analyze_resume(t, r)
              IN  [failed |-> FailedChecks(a.suggestions), score |-> a.score] :
              r \in TextstatScores \cup flesch_reading_ease_fallback(t) } :
            t \in AnalyzableTexts }

\* C4: of two analyses, the one whose failed checks are a subset of the other's
\* has a score at least as high.
C4_ScoreMonotone ==
    Analyzed =>
        \A o \in AllOutcomes :
            /\ FailedChecks(suggestions) \subseteq o.failed => score >= o.score
            /\ o.failed \subseteq FailedChecks(suggestions) => o.score >= score

C4_Witness ==
    /\ Analyzed
    /\ \E o \in AllOutcomes :
          /\ FailedChecks(suggestions) \subseteq o.failed
          /\ FailedChecks(suggestions) # o.failed
          /\ score > o.score

\* the extraction library cannot open the file's bytes
ParseFails(f) ==
    \/ endswith(f.name, <<".","p","d","f">>) /\ f.fmt # "pdf"
    \/ endswith(f.name, <<".","d","o","c","x">>) /\ f.fmt # "docx"

\* C5 as stated: when the library fails to parse the upload, the upload block
\* catches the failure and shows a failure message instead of crashing, and no
\* analysis result is produced.
C5_ParseFailureCaught ==
    (pc # "rerun" /\ uploaded_file # NoFile /\ ParseFails(uploaded_file)) =>
        /\ pc # "exception"
        /\ ui # <<>>
        /\ ~Analyzed

\* every character is whitespace
Blank(text) == \A i \in 1..Len(text) : IsSpace(text[i])

UnsupportedName(name) ==
    /\ ~endswith(name, <<".","p","d","f">>)
    /\ ~endswith(name, <<".","d","o","c","x">>)

\* C6: an upload whose name ends in neither '.pdf' nor '.docx' extracts to the
\* empty string; and whenever the extracted text is empty or whitespace only the
\* run ends normally with the 'could not extract text' error alone, without an
\* analysis, a score or a suggestion.
C6_NoTextNoAnalysis ==
    (pc # "rerun" /\ uploaded_file # NoFile) =>
        /\ UnsupportedName(uploaded_file.name) => (pc = "no_text" /\ resume_text = <<>>)
        /\ (pc # "exception" /\ Blank(resume_text)) =>
              /\ pc = "no_text"
              /\ ui = <<CouldNotExtract>>
              /\ suggestions = <<>>
              /\ score = 0

\* a DOCX under an upper-case PDF name: text in the file, none extracted
C6_Witness ==
    /\ pc = "no_text"
    /\ uploaded_file.name = NameUpperPdf
    /\ uploaded_file.fmt = "docx"
    /\ ui = <<CouldNotExtract>>

\* C7: the length rule adds 'too short' exactly when word_count < 300, 'too long'
\* exactly when word_count > 900, never both and never twice, and nothing for
\* 300 <= word_count <= 900.
C7_LengthRule ==
    Analyzed =>
        /\ (TooShort \in Range(suggestions)) <=> (word_count < min_words)
        /\ (TooLong \in Range(suggestions)) <=> (word_count > max_words)
        /\ Cardinality({i \in 1..Len(suggestions) : suggestions[i] \in {TooShort, TooLong}}) <= 1

\* a resume of exactly 300 words, and none of the length suggestions
C7_Witness ==
    /\ Analyzed
    /\ word_count = min_words
    /\ TooShort \notin Range(suggestions)
    /\ TooLong \notin Range(suggestions)

FourSections == Range(MissingSection)

SixSingles ==
    {"length", AddActionVerbs, AddTechnicalSkills, EmailNotFound, PhoneNotFound, LanguageComplex}

\* C8 as stated: a resume failing only the section check, all four sections
\* missing, scores lower than one that passes it and fails the six other checks.
C8_SectionsOnlyScoresLower ==
    (Analyzed /\ FailedChecks(suggestions) = FourSections) =>
        \A o \in AllOutcomes : o.failed = SixSingles => score < o.score

\* C8 amended: such a resume scores higher (42) than one that passes the section
\* check and fails the six other checks (14).
C8_SectionsOnlyScoresHigher ==
    (Analyzed /\ FailedChecks(suggestions) = FourSections) =>
        /\ score = 42
        /\ \A o \in AllOutcomes : o.failed = SixSingles => (o.score = 14 /\ score > o.score)

C8_Witness ==
    /\ Analyzed
    /\ FailedChecks(suggestions) = FourSections
    /\ \E o \in AllOutcomes : o.failed = SixSingles

\* the text of the pages that yield text, in page order
RECURSIVE SurvivingText(_, _)
SurvivingText(pages, k) ==
    IF k > Len(pages) THEN <<>>
    ELSE (IF pages[k].kind = "text" THEN pages[k].text ELSE <<>>) \o SurvivingText(pages, k + 1)

\* C9 as stated: a page that yields no text or whose extraction raises
\* contributes the empty string, and the extraction of a PDF returns the
\* concatenation of the other pages' texts.
C9_PageFailureSwallowed ==
    (/\ pc # "rerun"
     /\ endswith(uploaded_file.name, <<".","p","d","f">>)
     /\ uploaded_file.fmt = "pdf") =>
        /\ pc # "exception"
        /\ resume_text = SurvivingText(uploaded_file.pages, 1)

\* every suggestion, in the order of the checks
CheckOrder ==
    MissingSection \o <<TooShort, TooLong, AddActionVerbs, AddTechnicalSkills,
                        EmailNotFound, PhoneNotFound, LanguageComplex>>

\* whether the analyzed text fails the check behind CheckOrder[i]
FailsCheck(i) ==
    CASE i \in 1..4 -> ~HasSection(i, resume_text)
      [] i = 5 -> word_count < min_words
      [] i = 6 -> word_count > max_words
      [] i = 7 -> ~HasActionVerb(resume_text)
      [] i = 8 -> ~HasTechKeyword(resume_text)
      [] i = 9 -> ~search_email(resume_text)
      [] i = 10 -> ~search_phone(resume_text)
      [] OTHER -> readability < min_readability * 100

\* C10: the suggestions are those of the failed checks, one each, in the order
\* education, experience, projects, skills, length, action verbs, technical
\* keywords, email, phone, readability; no failed check is left out.
C10_CheckOrder ==
    Analyzed =>
        LET failing == SelectSeq([i \in 1..Len(CheckOrder) |-> i], FailsCheck)
        IN  suggestions = [i \in 1..Len(failing) |-> CheckOrder[failing[i]]]

\* a long resume without verb, keyword, email and phone
C10_Witness ==
    /\ Analyzed
    /\ TooLong \in Range(suggestions)
    /\ EmailNotFound \in Range(suggestions)
    /\ PhoneNotFound \in Range(suggestions)
    /\ Len(suggestions) >= 5

====
